---- MODULE Spec2Model ----
(***************************************************************************)
(* A model of jsparser: the recursive-descent parser combinators of        *)
(* parsers.js (the state is a parameter) and of jsparser.js create_parser  *)
(* (the state is closed over), run on a client grammar (Spec), and the two *)
(* Lexer classes, of jsparser.js and of stringlexer.js, under a client's   *)
(* define and tokenize calls (LexSpec; LiteralSpec for a Lexer with one    *)
(* literal definition).                                                    *)
(*                                                                         *)
(* A grammar is a table of parser functions; entry i is the parser         *)
(* [op, name, num, l, r, actions]: op names the library function the       *)
(* client calls, name/num its argument, l and r the table entries of the   *)
(* parser functions it is given (0 for none).  The machine evaluates       *)
(* entry 1 the way JavaScript evaluates the call: one step per library     *)
(* call or return, the pending calls in ctl.                               *)
(***************************************************************************)
EXTENDS Integers, Sequences, FiniteSets, TLC

VARIABLES
    variant,  \* "parsers" (parsers.js) or "jsparser" (jsparser.js create_parser)
    gram,     \* the client's parser functions, nodefn.actions included
    regs,     \* the action(nodeparser, f) calls the client has still to make
    state,    \* the parse state {tokens, cursor/next, ast, cut}
    phase,    \* "setup", "call", "ret", "done", "threw"
    cur,      \* the parser function being called (phase = "call") or called last
    ret,      \* the value the last call returned (truthy / falsy)
    ctl,      \* the JavaScript call stack: one frame per pending combinator call
    thrown,   \* what was thrown: "none", "state" or "error"
    from,     \* which parser function produced ret, and from which operand
    before,   \* history: state, ret, from and top frame before the last step
    actlog,   \* history: the action calls of the last nodefn that built a node
    cutlog,   \* history: the markers the cut calls so far set, and the last of them
    reglog,   \* history: the action(nodeparser, f) calls made so far, in order
    lexer,        \* the Lexer class: "jsparser", "stringlexer" ("none": no Lexer made)
    definitions,  \* this.definitions / this.tokens: the [name, source] pairs, in order
    keepws,       \* this.keepws
    handler,      \* which function this.unknownhandler is
    tokenizer,    \* this.tokenizer: <<>> (undefined) or << the compiled scanner >>
    dirty,        \* history: a definition was made since the scanner was last compiled
    lexcall       \* history: the client's last call on the Lexer and what came of it

parsevars == <<variant, gram, regs, state, phase, cur, ret, ctl, thrown, from, before,
               actlog, cutlog, reglog>>
lexvars == <<lexer, definitions, keepws, handler, tokenizer, dirty, lexcall>>
vars == <<parsevars, lexvars>>

(***************************************************************************)
(* Bounds                                                                  *)
(***************************************************************************)
MaxLen == 2       \* longest token sequence given to the small grammars
MaxCalcLen == 3   \* longest token sequence given to the calculator grammar
MaxActions == 2   \* most actions registered on one node parser
MaxInput == 1     \* longest input string of tokenize, the examples apart
MaxDefs == 1      \* most definitions given to the constructor; define stops past it
MaxText == 2      \* longest string tokenized under one literal

Names == {"a", "b"}
CalcNames == {"number", "+", "*", "(", ")"}
Labels == {1, 2}

(***************************************************************************)
(* Tokens and parse states                                                 *)
(***************************************************************************)
\* A token as the lexers make it: {name, text, cursor}.
Token(name, at) == [name |-> name, text |-> name, cursor |-> at]

RECURSIVE TokenSeqs(_, _)
TokenSeqs(names, n) ==
    IF n = 0 THEN {<<>>}
    ELSE LET shorter == TokenSeqs(names, n - 1)
         IN  shorter \cup
             {Append(s, Token(nm, Len(s))) : s \in {t \in shorter : Len(t) = n - 1}, nm \in names}

\* init_state(tokens): cursor 0, empty ast, no cut marker.  The optional cut
\* property is a sequence holding no or one {label, cursor} record.
init_state(toks) == [tokens |-> toks, cursor |-> 0, ast |-> <<>>, cut |-> <<>>]

\* state.tokens[state.cursor] is truthy: the index holds a token.
HasToken(s) == s.cursor >= 0 /\ s.cursor < Len(s.tokens)
CurrentToken(s) == s.tokens[s.cursor + 1]

\* The result of a parser call: ok (truthy or falsy) and the state it leaves.
Result(ok, s) == [ok |-> ok, s |-> s]

(***************************************************************************)
(* Basic parsers                                                           *)
(***************************************************************************)
\* Fault seeded to test C29: keep puts the token under the stack.
keep_under(s) ==
    IF HasToken(s)
    THEN Result(TRUE, [s EXCEPT !.ast = <<CurrentToken(s)>> \o @, !.cursor = @ + 1])
    ELSE Result(FALSE, s)

keep(s) ==
    IF HasToken(s)
    THEN Result(TRUE, [s EXCEPT !.ast = Append(@, CurrentToken(s)), !.cursor = @ + 1])
    ELSE Result(FALSE, s)

\* Fault seeded to test C11: skip advances with no token at the cursor.
skip_past_end(s) == Result(TRUE, [s EXCEPT !.cursor = @ + 1])

skip(s) ==
    IF HasToken(s)
    THEN Result(TRUE, [s EXCEPT !.cursor = @ + 1])
    ELSE Result(FALSE, s)

\* Fault seeded to test C9: a missing token counts as a match.
is_loose(name, s) == Result(~HasToken(s) \/ CurrentToken(s).name = name, s)

\* state.tokens[state.cursor]?.name == name, for a string name.
is(name, s) == Result(HasToken(s) /\ CurrentToken(s).name = name, s)

\* Fault seeded to test C22: match drops the token it should keep.
match_drops(name, s) == IF is(name, s).ok THEN skip(s) ELSE Result(FALSE, s)

match(name, s) == IF is(name, s).ok THEN keep(s) ELSE Result(FALSE, s)

not(name, s) == IF ~is(name, s).ok THEN keep(s) ELSE Result(FALSE, s)

\* Fault seeded to test C8: eat keeps the token it should skip.
eat_keeps(name, s) == IF is(name, s).ok THEN keep(s) ELSE Result(FALSE, s)

eat(name, s) == IF is(name, s).ok THEN skip(s) ELSE Result(FALSE, s)

\* Fault seeded to test C10: a marker already set is not overwritten.
cut_once(label, s) ==
    Result(TRUE, IF s.cut = <<>>
                 THEN [s EXCEPT !.cut = <<[label |-> label, cursor |-> s.cursor]>>]
                 ELSE s)

cut(label, s) == Result(TRUE, [s EXCEPT !.cut = <<[label |-> label, cursor |-> s.cursor]>>])

END(s) == Result(s.cursor >= Len(s.tokens), s)

(***************************************************************************)
(* save / restore                                                          *)
(***************************************************************************)
save(s) == [cursor |-> s.cursor, astlen |-> Len(s.ast)]

\* What a call does: "return" ok with state s, or "throw" with state s live.
Outcome(kind, ok, s) == [kind |-> kind, ok |-> ok, s |-> s]

\* Fault seeded to test C2: the cut fires only strictly past the checkpoint.
CutFiresStrict(saved, s) == s.cut # <<>> /\ s.cut[1].cursor > saved.cursor

\* Fault seeded to test C28: restore rewinds whatever the marker.
CutFiresNever(saved, s) == FALSE

\* state?.cut?.cursor >= saved_state.cursor
CutFires(saved, s) == s.cut # <<>> /\ s.cut[1].cursor >= saved.cursor

\* Fault seeded to test C1: the ast is not cut back to its saved length.
restore_cursor_only(saved, s) ==
    IF CutFires(saved, s)
    THEN Outcome("throw", FALSE, s)
    ELSE Outcome("return", FALSE, [s EXCEPT !.cursor = saved.cursor])

\* Fault seeded to test C24: restore empties the ast.
restore_clears(saved, s) ==
    IF CutFires(saved, s)
    THEN Outcome("throw", FALSE, s)
    ELSE Outcome("return", FALSE, [s EXCEPT !.cursor = saved.cursor, !.ast = <<>>])

\* Fault seeded to test C25: a restore that does not throw deletes the marker.
restore_uncuts(saved, s) ==
    IF CutFires(saved, s)
    THEN Outcome("throw", FALSE, s)
    ELSE Outcome("return", FALSE,
                 [s EXCEPT !.cursor = saved.cursor, !.ast = SubSeq(@, 1, saved.astlen),
                           !.cut = <<>>])

\* restore(saved_state): throws the state, or rewinds it and returns false.
restore(saved, s) ==
    IF CutFires(saved, s)
    THEN Outcome("throw", FALSE, s)
    ELSE Outcome("return", FALSE,
                 [s EXCEPT !.cursor = saved.cursor, !.ast = SubSeq(@, 1, saved.astlen)])

(***************************************************************************)
(* bt, node / cnode, action, many                                          *)
(***************************************************************************)
\* backtracker, once parser(state) has returned result.
backtracker(saved, result, s) ==
    IF result THEN Outcome("return", TRUE, s) ELSE restore(saved, s)

\* Fault seeded to test C7: the action is put first instead of last.
action_unshift(actions, act) == <<act>> \o actions

\* action(nodeparser, act): nodeparser.actions.push(act)
action(actions, act) == Append(actions, act)

\* The client's action functions: "A" and "B" return a new node that wraps the
\* one they are given, "veto" returns false.
ActionFns == {"A", "B", "veto"}
ActionFalsy(f, node) == f = "veto"
ActionValue(f, node) == [name |-> f, children |-> <<node>>]

\* One call of an action function, as the log records it.
ActionCall(f, node) ==
    [fn |-> f, arg |-> node, falsy |-> ActionFalsy(f, node),
     value |-> IF ActionFalsy(f, node) THEN node ELSE ActionValue(f, node)]

\* for (let action of nodefn.actions) { if (!(node = action(node))) return restore(...) }
\* falsy: an action returned a falsy value; node: the value of node after the
\* loop; log: the calls made, in order.
RECURSIVE RunActions(_, _)
RunActions(actions, node) ==
    IF actions = <<>> THEN [falsy |-> FALSE, node |-> node, log |-> <<>>]
    ELSE LET call == ActionCall(Head(actions), node)
         IN  IF call.falsy
             THEN [falsy |-> TRUE, node |-> node, log |-> <<call>>]
             ELSE LET rest == RunActions(Tail(actions), call.value)
                  IN  [falsy |-> rest.falsy, node |-> rest.node, log |-> <<call>> \o rest.log]

\* The outcome of nodefn, with its action calls and whether it built a node.
NodeOutcome(o, built, log) ==
    [kind |-> o.kind, ok |-> o.ok, s |-> o.s, built |-> built, log |-> log]

\* Fault seeded to test C5: a node is built when count elements were pushed.
nodefn_at_count(name, count, actions, saved, result, s) ==
    IF result
    THEN IF Len(s.ast) - saved.astlen >= count
         THEN LET children == SubSeq(s.ast, saved.astlen + 1, Len(s.ast))
                  cleared == [s EXCEPT !.ast = SubSeq(@, 1, saved.astlen)]
                  run == RunActions(actions, [name |-> name, children |-> children])
              IN  IF run.falsy
                  THEN NodeOutcome(restore(saved, cleared), TRUE, run.log)
                  ELSE NodeOutcome(
                           Outcome("return", TRUE, [cleared EXCEPT !.ast = Append(@, run.node)]),
                           TRUE, run.log)
         ELSE NodeOutcome(Outcome("return", TRUE, s), FALSE, <<>>)
    ELSE NodeOutcome(restore(saved, s), FALSE, <<>>)

\* Fault seeded to test C6: a falsy action result fails the call without restore.
nodefn_no_restore(name, count, actions, saved, result, s) ==
    IF result
    THEN IF Len(s.ast) - saved.astlen > count
         THEN LET children == SubSeq(s.ast, saved.astlen + 1, Len(s.ast))
                  cleared == [s EXCEPT !.ast = SubSeq(@, 1, saved.astlen)]
                  run == RunActions(actions, [name |-> name, children |-> children])
              IN  IF run.falsy
                  THEN NodeOutcome(Outcome("return", FALSE, cleared), TRUE, run.log)
                  ELSE NodeOutcome(
                           Outcome("return", TRUE, [cleared EXCEPT !.ast = Append(@, run.node)]),
                           TRUE, run.log)
         ELSE NodeOutcome(Outcome("return", TRUE, s), FALSE, <<>>)
    ELSE NodeOutcome(restore(saved, s), FALSE, <<>>)

\* Fault seeded to test C30: the actions are called when no node is built too.
nodefn_acts_always(name, count, actions, saved, result, s) ==
    IF result
    THEN LET built == Len(s.ast) - saved.astlen > count
             children == IF built THEN SubSeq(s.ast, saved.astlen + 1, Len(s.ast)) ELSE <<>>
             cleared == IF built THEN [s EXCEPT !.ast = SubSeq(@, 1, saved.astlen)] ELSE s
             run == RunActions(actions, [name |-> name, children |-> children])
         IN  IF run.falsy
             THEN NodeOutcome(restore(saved, cleared), built, run.log)
             ELSE NodeOutcome(
                      Outcome("return", TRUE,
                              IF built THEN [cleared EXCEPT !.ast = Append(@, run.node)] ELSE s),
                      built, run.log)
    ELSE NodeOutcome(restore(saved, s), FALSE, <<>>)

\* nodefn, once parser(state) has returned result.
nodefn(name, count, actions, saved, result, s) ==
    IF result
    THEN IF Len(s.ast) - saved.astlen > count
         THEN LET children == SubSeq(s.ast, saved.astlen + 1, Len(s.ast))
                  cleared == [s EXCEPT !.ast = SubSeq(@, 1, saved.astlen)]
                  run == RunActions(actions, [name |-> name, children |-> children])
              IN  IF run.falsy
                  THEN NodeOutcome(restore(saved, cleared), TRUE, run.log)
                  ELSE NodeOutcome(
                           Outcome("return", TRUE, [cleared EXCEPT !.ast = Append(@, run.node)]),
                           TRUE, run.log)
         ELSE NodeOutcome(Outcome("return", TRUE, s), FALSE, <<>>)
    ELSE NodeOutcome(restore(saved, s), FALSE, <<>>)

\* many, once parser has returned result: call it "again", "throw", or
\* "return" true.
\* parsers.js: while (parser(s)) {}
\* Fault seeded to test C14: many returns after the first call of its parser.
many_once(v, next, result, s) == "return"

many_parsers(next, result, s) == IF result THEN "again" ELSE "return"

\* jsparser.js: next is the cursor at which the invocation began.  The throw
\* statement's message reads an undeclared variable, so what is thrown is a
\* ReferenceError in place of the message; an error either way.
many_jsparser(next, result, s) ==
    IF result
    THEN IF s.cursor = next THEN "throw" ELSE "again"
    ELSE "return"

many(v, next, result, s) ==
    IF v = "jsparser" THEN many_jsparser(next, result, s) ELSE many_parsers(next, result, s)

(***************************************************************************)
(* Client grammars                                                         *)
(***************************************************************************)
Parser(op, name, num, l, r) ==
    [op |-> op, name |-> name, num |-> num, l |-> l, r |-> r, actions |-> <<>>]

\* The table t placed k entries further down.
Shift(t, k) ==
    [i \in DOMAIN t |->
        [t[i] EXCEPT !.l = IF @ = 0 THEN 0 ELSE @ + k, !.r = IF @ = 0 THEN 0 ELSE @ + k]]

\* A basic parser; a combinator given one parser; A && B and A || B.
Leaf(op, name, num) == <<Parser(op, name, num, 0, 0)>>
Unary(op, name, num, A) == <<Parser(op, name, num, 2, 0)>> \o Shift(A, 1)
Binary(op, A, B) ==
    <<Parser(op, "", 0, 2, 2 + Len(A))>> \o Shift(A, 1) \o Shift(B, 1 + Len(A))

AndThen(A, B) == Binary("seq", A, B)
OrElse(A, B) == Binary("alt", A, B)
Bt(A) == Unary("bt", "", 0, A)
Node(A) == Unary("node", "X", 0, A)
Cnode(A) == Unary("node", "X", 1, A)
Many(A) == Unary("many", "", 0, A)
Keep == Leaf("keep", "", 0)
Cut(label) == Leaf("cut", "", label)

Atoms ==
    {Keep, Leaf("skip", "", 0), Leaf("END", "", 0), Cut(1), Cut(2),
     Leaf("is", "a", 0), Leaf("match", "a", 0), Leaf("match", "b", 0),
     Leaf("not", "a", 0), Leaf("eat", "b", 0)}

PairAtoms == {Keep, Leaf("END", "", 0), Cut(1), Leaf("is", "a", 0), Leaf("match", "a", 0),
              Leaf("eat", "b", 0)}

Bodies == Atoms \cup {AndThen(A, B) : A, B \in PairAtoms} \cup {OrElse(A, B) : A, B \in PairAtoms}

Wrapped == {Bt(A) : A \in Bodies} \cup {Node(A) : A \in Bodies}
               \cup {Cnode(A) : A \in Bodies} \cup {Many(A) : A \in Bodies}

\* A parser run on a state other than the initial one, and parsers nested
\* under alternation, bt, node and many.
Prefixed == {AndThen(P, W) : P \in {Keep, Cut(2)}, W \in Wrapped}

Nested ==
    LET inner == {Bt(AndThen(A, B)) : A \in {Keep, Cut(1)}, B \in {Leaf("END", "", 0), Cut(2), Keep}}
    IN  {Node(Many(A)) : A \in {Keep, Leaf("match", "a", 0)}}
            \cup {Cnode(Many(A)) : A \in {Keep, Leaf("match", "a", 0)}}
            \cup {Bt(OrElse(W, Keep)) : W \in inner}
            \cup {Node(AndThen(Keep, OrElse(W, Keep))) : W \in inner}
            \cup {AndThen(Cut(2), Many(OrElse(W, Keep))) : W \in inner}
            \cup {AndThen(AndThen(Cut(2), Keep), W) : W \in inner}
            \cup {AndThen(AndThen(Cut(2), Keep), Node(W)) : W \in inner}

SmallGrammars == Wrapped \cup Prefixed \cup Nested

\* Node parsers the client registers actions on (table entry NodeAt).
ActionGrammars ==
    LET bodies == {Keep, AndThen(Keep, Keep), AndThen(Cut(1), Keep), AndThen(Keep, Cut(1)),
                   Leaf("is", "a", 0)}
        nodes == {Node(A) : A \in bodies} \cup {Cnode(A) : A \in bodies}
    IN  nodes \cup {AndThen(P, W) : P \in {Keep, Cut(2)}, W \in nodes}

NodeAt(g) == CHOOSE i \in DOMAIN g : g[i].op = "node" /\ \A j \in 1..(i - 1) : g[j].op # "node"

RECURSIVE ActionSeqs(_)
ActionSeqs(n) ==
    IF n = 0 THEN {<<>>}
    ELSE LET shorter == ActionSeqs(n - 1)
         IN  shorter \cup {Append(a, f) : a \in {b \in shorter : Len(b) = n - 1}, f \in ActionFns}

\* The README's calculator, with node, bt and cut:
\*   expr    = node('expr', () => addend() && many(bt(() => add_op() && cut(1) && addend())))
\*   addend  = node('addend', () => factor() && many(bt(() => mult_op() && factor())))
\*   factor  = node('factor', () => bracket() || number())
\*   bracket = bt(() => match('(') && expr() && match(')'))
\*   number  = () => match('number')
\*   add_op  = () => match('+') || match('-')
\*   mult_op = () => match('*') || match('/')
Calculator ==
    <<  Parser("node", "expr", 0, 2, 0),      \*  1 expr
        Parser("seq", "", 0, 3, 4),           \*  2 addend() && many(...)
        Parser("node", "addend", 0, 12, 0),   \*  3 addend
        Parser("many", "", 0, 5, 0),          \*  4 many(bt(...))
        Parser("bt", "", 0, 6, 0),            \*  5 bt(() => ...)
        Parser("seq", "", 0, 7, 3),           \*  6 (add_op() && cut(1)) && addend()
        Parser("seq", "", 0, 8, 11),          \*  7 add_op() && cut(1)
        Parser("alt", "", 0, 9, 10),          \*  8 add_op
        Parser("match", "+", 0, 0, 0),        \*  9
        Parser("match", "-", 0, 0, 0),        \* 10
        Parser("cut", "", 1, 0, 0),           \* 11 cut(1)
        Parser("seq", "", 0, 13, 14),         \* 12 factor() && many(...)
        Parser("node", "factor", 0, 20, 0),   \* 13 factor
        Parser("many", "", 0, 15, 0),         \* 14 many(bt(...))
        Parser("bt", "", 0, 16, 0),           \* 15 bt(() => mult_op() && factor())
        Parser("seq", "", 0, 17, 13),         \* 16 mult_op() && factor()
        Parser("alt", "", 0, 18, 19),         \* 17 mult_op
        Parser("match", "*", 0, 0, 0),        \* 18
        Parser("match", "/", 0, 0, 0),        \* 19
        Parser("alt", "", 0, 21, 26),         \* 20 bracket() || number()
        Parser("bt", "", 0, 22, 0),           \* 21 bracket
        Parser("seq", "", 0, 23, 25),         \* 22 (match('(') && expr()) && match(')')
        Parser("seq", "", 0, 24, 1),          \* 23 match('(') && expr()
        Parser("match", "(", 0, 0, 0),        \* 24
        Parser("match", ")", 0, 0, 0),        \* 25
        Parser("match", "number", 0, 0, 0) >> \* 26 number

\* An expression grammar over number, plus and minus tokens:
\*   expr = node('expr', () => match('number')
\*              && many(bt(() => (match('plus') || match('minus')) && match('number'))))
ExprGrammar ==
    <<  Parser("node", "expr", 0, 2, 0),      \*  1 expr
        Parser("seq", "", 0, 3, 4),           \*  2 match('number') && many(...)
        Parser("match", "number", 0, 0, 0),   \*  3
        Parser("many", "", 0, 5, 0),          \*  4 many(bt(...))
        Parser("bt", "", 0, 6, 0),            \*  5 bt(() => ...)
        Parser("seq", "", 0, 7, 10),          \*  6 (... || ...) && match('number')
        Parser("alt", "", 0, 8, 9),           \*  7 match('plus') || match('minus')
        Parser("match", "plus", 0, 0, 0),     \*  8
        Parser("match", "minus", 0, 0, 0),    \*  9
        Parser("match", "number", 0, 0, 0) >> \* 10

\* The tokens of "12 + 7".
ExprTokens ==
    <<  [name |-> "number", text |-> "12", cursor |-> 0],
        [name |-> "plus", text |-> "+", cursor |-> 3],
        [name |-> "number", text |-> "7", cursor |-> 5] >>

Variants == {"parsers", "jsparser"}

(***************************************************************************)
(* The Lexers: strings, definitions, regular expressions                   *)
(*                                                                         *)
(* A string is the sequence of its characters.  A regular-expression       *)
(* source is a string; of JavaScript's syntax the model reads literal      *)
(* characters, the dot, \x escapes (the classes \d \D \s \S \w \W and the  *)
(* assertions \b \B among them), [...] classes, the quantifiers + and * on *)
(* one character or class, and ( ) around a part.                          *)
(***************************************************************************)
InputChars == {"a", " ", "@"}

\* The characters of the literals given as bare strings and of the strings
\* tokenized under them.
LiteralChars == {"a", ".", "D", "B", "+", "@"}

\* The characters a string can hold here.
Alphabet == InputChars \cup LiteralChars \cup {"b", "1", "2", "7", "(", ")", "\r", "\n"}

RECURSIVE Strings(_, _)
Strings(chars, n) ==
    IF n = 0 THEN {<<>>}
    ELSE LET shorter == Strings(chars, n - 1)
         IN  shorter \cup {Append(s, c) : s \in {t \in shorter : Len(t) = n - 1}, c \in chars}

\* The characters of the class [()*+?-[\]\\^${}|/] of escaped; ?-[ is a range.
UpperCase ==
    {"A", "B", "C", "D", "E", "F", "G", "H", "I", "J", "K", "L", "M", "N", "O", "P", "Q",
     "R", "S", "T", "U", "V", "W", "X", "Y", "Z"}
EscapedChars(v) ==
    {"(", ")", "*", "+", "\\", "^", "$", "{", "}", "|", "]"}
        \cup ({"?", "@", "["} \cup UpperCase)
        \cup (IF v = "jsparser" THEN {"/"} ELSE {})

\* s.replaceAll(/[...]/g, (v) => '\\' + v)
RECURSIVE escaped(_, _)
escaped(v, s) ==
    IF s = <<>> THEN <<>>
    ELSE (IF Head(s) \in EscapedChars(v) THEN <<"\\", Head(s)>> ELSE <<Head(s)>>)
             \o escaped(v, Tail(s))

\* What a client gives as a definition: a bare string ("bare": typeof d ==
\* 'string' in jsparser.js, the value left out in stringlexer.js), a name with a
\* string, with a RegExp, or with false.  For "regexp" value is the source of
\* the RegExp object.
Given(form, name, value) == [form |-> form, name |-> name, value |-> value]

\* A stored definition: [name, source]; off when the value stored is false.
Def(name, src, off) == [name |-> name, src |-> src, off |-> off]

\* Lexer.makedef of jsparser.js.
makedef(d) ==
    CASE d.form = "bare" -> Def(d.name, escaped("jsparser", d.value), FALSE)
      [] d.form \in {"string", "regexp"} -> Def(d.name, d.value, FALSE)
      [] d.form = "false" -> Def(d.name, <<>>, TRUE)

\* this.definitions.findIndex((d) => d[0] == name), from 1; 0 for -1.
findtoken(defs, name) ==
    LET found == {i \in DOMAIN defs : defs[i].name = name}
    IN  IF found = {} THEN 0 ELSE CHOOSE i \in found : \A j \in found : i <= j

\* /[ \r\n]+/.source
DefaultWhitespace == <<"[", " ", "\\", "r", "\\", "n", "]", "+">>

\* One element of a pattern: the characters it matches and its quantifier
\* ("1", "+" or "*"); or a word boundary ("b") or its negation ("B"), with the
\* word characters.
Item(chars, quant) == [chars |-> chars, quant |-> quant]

CR == "\r"
LF == "\n"
\* The character \x stands for.
EscapeOf(x) == IF x = "r" THEN CR ELSE IF x = "n" THEN LF ELSE x

LowerCase ==
    {"a", "b", "c", "d", "e", "f", "g", "h", "i", "j", "k", "l", "m", "n", "o", "p", "q",
     "r", "s", "t", "u", "v", "w", "x", "y", "z"}
Digits == {"0", "1", "2", "3", "4", "5", "6", "7", "8", "9"}
WordChars == LowerCase \cup UpperCase \cup Digits \cup {"_"}
SpaceChars == {" ", "\t", "\f", CR, LF}

\* The characters \x matches: a class for d D s S w W, one character otherwise
\* (an identity escape when x has no meaning of its own).
EscapeClass(x) ==
    CASE x = "d" -> Digits
      [] x = "D" -> Alphabet \ Digits
      [] x = "s" -> SpaceChars
      [] x = "S" -> Alphabet \ SpaceChars
      [] x = "w" -> WordChars
      [] x = "W" -> Alphabet \ WordChars
      [] OTHER -> {EscapeOf(x)}

\* The characters of the class whose source is src[i..j].
RECURSIVE ClassChars(_, _, _)
ClassChars(src, i, j) ==
    IF i > j THEN {}
    ELSE IF src[i] = "\\" /\ i < j
         THEN EscapeClass(src[i + 1]) \cup ClassChars(src, i + 2, j)
         ELSE {src[i]} \cup ClassChars(src, i + 1, j)

\* The index of the ] that closes the class opened before src[i]; 0 if none.
RECURSIVE ClassEnd(_, _)
ClassEnd(src, i) ==
    IF i > Len(src) THEN 0
    ELSE IF src[i] = "\\" THEN ClassEnd(src, i + 2)
    ELSE IF src[i] = "]" THEN i
    ELSE ClassEnd(src, i + 1)

Invalid == [ok |-> FALSE, items |-> <<>>]

\* new RegExp(src) for one source: its elements, or a SyntaxError (not ok) for
\* an unterminated class or group, an unmatched ), a \ at the end, or a
\* quantifier with nothing to repeat.
RECURSIVE ParseSource(_, _, _, _)
ParseSource(src, i, depth, items) ==
    IF i > Len(src) THEN [ok |-> depth = 0, items |-> items]
    ELSE LET c == src[i]
         IN  CASE c = "\\" ->
                      IF i = Len(src) THEN Invalid
                      ELSE IF src[i + 1] \in {"b", "B"}
                      THEN ParseSource(src, i + 2, depth,
                                       Append(items, Item(WordChars, src[i + 1])))
                      ELSE ParseSource(src, i + 2, depth,
                                       Append(items, Item(EscapeClass(src[i + 1]), "1")))
               [] c = "[" ->
                      LET j == ClassEnd(src, i + 1)
                      IN  IF j = 0 THEN Invalid
                          ELSE ParseSource(src, j + 1, depth,
                                           Append(items, Item(ClassChars(src, i + 1, j - 1), "1")))
               [] c \in {"+", "*"} ->
                      IF items = <<>> \/ items[Len(items)].quant # "1" THEN Invalid
                      ELSE ParseSource(src, i + 1, depth,
                                       [items EXCEPT ![Len(items)].quant = c])
               [] c = "(" -> ParseSource(src, i + 1, depth + 1, items)
               [] c = ")" ->
                      IF depth = 0 THEN Invalid
                      ELSE ParseSource(src, i + 1, depth - 1, items)
               [] c = "." ->
                      ParseSource(src, i + 1, depth, Append(items, Item(Alphabet \ {CR, LF}, "1")))
               [] OTHER -> ParseSource(src, i + 1, depth, Append(items, Item({c}, "1")))

\* The end of the longest run of characters of chars in str from offset pos.
RECURSIVE RunEnd(_, _, _)
RunEnd(chars, str, pos) ==
    IF pos < Len(str) /\ str[pos + 1] \in chars THEN RunEnd(chars, str, pos + 1) ELSE pos

\* Offset pos of str lies between a word character and something else.
WordBoundary(word, str, pos) ==
    (pos > 0 /\ str[pos] \in word) # (pos < Len(str) /\ str[pos + 1] \in word)

\* The offset at which a match of items[k..] that starts at offset pos of str
\* ends; -1 when there is none.  Quantifiers are greedy.
RECURSIVE MatchEnd(_, _, _, _)
MatchEnd(items, k, str, pos) ==
    IF k > Len(items) THEN pos
    ELSE LET run == RunEnd(items[k].chars, str, pos)
         IN  CASE items[k].quant = "1" ->
                      IF run > pos THEN MatchEnd(items, k + 1, str, pos + 1) ELSE -1
               [] items[k].quant = "+" ->
                      IF run > pos THEN MatchEnd(items, k + 1, str, run) ELSE -1
               [] items[k].quant = "*" -> MatchEnd(items, k + 1, str, run)
               [] items[k].quant \in {"b", "B"} ->
                      IF WordBoundary(items[k].chars, str, pos) = (items[k].quant = "b")
                      THEN MatchEnd(items, k + 1, str, pos)
                      ELSE -1

(***************************************************************************)
(* The Lexers: compile, the tokenizer function, define                     *)
(***************************************************************************)
\* if (v) in compile of jsparser.js: false and '' are left out.
Falsy(def) == def.off \/ def.src = <<>>

\* Fault seeded to test C20: compile takes any source for a regular expression.
compile_unchecked(v, defs) ==
    LET used == IF v = "jsparser" THEN SelectSeq(defs, LAMBDA d : ~Falsy(d)) ELSE defs
        parsed == [i \in DOMAIN used |-> ParseSource(used[i].src, 1, 0, <<>>)]
    IN  [ok |-> TRUE,
         scanner |-> [tokennames |-> [i \in DOMAIN used |-> used[i].name],
                      pats |-> [i \in DOMAIN used |-> parsed[i].items]]]

\* compile(): the token names and the patterns of the one regular expression
\* (v1)|(v2)|..., which new RegExp rejects (not ok) when a source is invalid.
compile(v, defs) ==
    LET used == IF v = "jsparser" THEN SelectSeq(defs, LAMBDA d : ~Falsy(d)) ELSE defs
        parsed == [i \in DOMAIN used |-> ParseSource(used[i].src, 1, 0, <<>>)]
    IN  [ok |-> \A i \in DOMAIN used : parsed[i].ok,
         scanner |-> [tokennames |-> [i \in DOMAIN used |-> used[i].name],
                      pats |-> [i \in DOMAIN used |-> parsed[i].items]]]

NoMatch == [found |-> FALSE, index |-> 0, len |-> 0, group |-> 0]

\* The match of the regular expression that starts at offset i: the first
\* alternative that matches there, an empty match included.  The expression
\* with no alternative at all is the empty one and matches the empty string.
MatchAt(sc, str, i) ==
    LET hits == {k \in DOMAIN sc.pats : MatchEnd(sc.pats[k], 1, str, i) # -1}
    IN  IF sc.pats = <<>> THEN [found |-> TRUE, index |-> i, len |-> 0, group |-> 0]
        ELSE IF hits = {} THEN NoMatch
        ELSE LET k == CHOOSE k \in hits : \A j \in hits : k <= j
             IN  [found |-> TRUE, index |-> i, len |-> MatchEnd(sc.pats[k], 1, str, i) - i,
                  group |-> k]

\* The next match str.matchAll(re) yields, searching from offset pos.
NextMatch(sc, str, pos) ==
    LET at == {i \in pos..Len(str) : MatchAt(sc, str, i).found}
    IN  IF at = {} THEN NoMatch
        ELSE MatchAt(sc, str, CHOOSE i \in at : \A j \in at : i <= j)

\* str.slice(from, to)
Slice(str, lo, hi) == SubSeq(str, lo + 1, hi)

\* tokennames[m.slice(1).findIndex((x) => !!x)]: the name of the group that
\* holds a non-empty string; undefined when the match is empty.
Undefined == "undefined"
NameOf(sc, m) == IF m.len > 0 THEN sc.tokennames[m.group] ELSE Undefined

\* What a call on the Lexer gives: an array of tokens ("array"), a parse state
\* ("state"), or what it throws: the unknown token ("unknown") or a message
\* ("error").
LexResult(kind, value) == [kind |-> kind, value |-> value]

Handlers == {"default", "unquoted"}
\* this.unknownhandler(token) when it returns: the handler of tests/csv.js.
unknownhandler(h, token) == [token EXCEPT !.name = "unquoted"]

Zero_length == "succeeded without consuming any input"
SyntaxError == "SyntaxError: Invalid regular expression"

\* Fault seeded to test C16: the unknown token's cursor is where the stretch ends.
UnknownToken_at_end(str, lastmatch, to) ==
    [name |-> "unknown", text |-> Slice(str, lastmatch, to), cursor |-> to]

UnknownToken(str, lastmatch, to) ==
    [name |-> "unknown", text |-> Slice(str, lastmatch, to), cursor |-> lastmatch]

\* name != 'whitespace' || this.keepws
Kept(name, kw) == name # "whitespace" \/ kw

\* The function compile makes, from the match searched from offset pos on, with
\* the local variables lastmatch and tokens.
RECURSIVE RunTokenizer(_, _, _, _, _, _, _, _)
RunTokenizer(v, sc, kw, h, str, pos, lastmatch, tokens) ==
    LET m == IF pos > Len(str) THEN NoMatch ELSE NextMatch(sc, str, pos)
    IN  IF ~m.found
        THEN IF lastmatch < Len(str)
             THEN LET u == UnknownToken(str, lastmatch, Len(str))
                  IN  IF h = "default" THEN LexResult("unknown", u)
                      ELSE LexResult("array", Append(tokens, unknownhandler(h, u)))
             ELSE LexResult("array", tokens)
        ELSE LET gap == m.index > lastmatch
                 u == UnknownToken(str, lastmatch, m.index)
                 name == NameOf(sc, m)
                 end == m.index + m.len
                 t1 == IF gap THEN Append(tokens, unknownhandler(h, u)) ELSE tokens
                 t2 == IF Kept(name, kw)
                       THEN Append(t1, [name |-> name, text |-> Slice(str, m.index, end),
                                        cursor |-> m.index])
                       ELSE t1
             IN  IF gap /\ h = "default" THEN LexResult("unknown", u)
                 ELSE IF v = "jsparser" /\ Kept(name, kw) /\ m.len = 0
                 THEN LexResult("error", Zero_length)
                 ELSE RunTokenizer(v, sc, kw, h, str, IF m.len = 0 THEN end + 1 ELSE end,
                                   end, t2)

\* d.name, for the array d that makedef returns.
NameProperty(d) == Undefined

Cant_find == "cant find the token"
DefineResult(kind, defs, tok) == [kind |-> kind, definitions |-> defs, tokenizer |-> tok]
InsertAt(s, i, e) == SubSeq(s, 1, i - 1) \o <<e>> \o SubSeq(s, i, Len(s))

\* Fault seeded to test C19: the compiled scanner is kept when a definition is made.
define_keeps_scanner(given, bef, defs, tok) ==
    DefineResult("return", Append(defs, makedef(given)), tok)

\* Lexer.define(d, before) of jsparser.js; bef = "" when before is not given.
define_jsparser(given, bef, defs, tok) ==
    LET d == makedef(given)
        ws == findtoken(defs, "whitespace")
        b == findtoken(defs, bef)
    IN  IF NameProperty(d) = "whitespace" /\ ws # 0
        THEN DefineResult("return", [defs EXCEPT ![ws] = d], tok)
        ELSE IF bef = "" THEN DefineResult("return", Append(defs, d), <<>>)
        ELSE IF b = 0 THEN DefineResult("throw", defs, tok)
        ELSE DefineResult("return", InsertAt(defs, b, d), <<>>)

\* this.tokens[name] = src: a key that exists keeps its place.
SetKey(defs, name, src) ==
    LET i == findtoken(defs, name)
    IN  IF i = 0 THEN Append(defs, Def(name, src, FALSE))
        ELSE [defs EXCEPT ![i] = Def(name, src, FALSE)]

\* Lexer.define(name, value) of stringlexer.js.
define_stringlexer(given, defs, tok) ==
    DefineResult("return",
        CASE given.form \in {"bare", "string"} ->
                 SetKey(defs, given.name, escaped("stringlexer", given.value))
          [] given.form = "regexp" -> SetKey(defs, given.name, given.value)
          [] OTHER -> defs,
        <<>>)

\* new Lexer(...definitions) of jsparser.js.
constructor_jsparser(givens) ==
    LET defs == [i \in DOMAIN givens |-> makedef(givens[i])]
    IN  IF findtoken(defs, "whitespace") = 0
        THEN define_jsparser(Given("string", "whitespace", DefaultWhitespace), "", defs,
                             <<>>).definitions
        ELSE defs

\* new Lexer(ws) of stringlexer.js; ws is << the source of the RegExp >>, or
\* <<>> for a falsy ws.
constructor_stringlexer(ws) ==
    IF ws # <<>> THEN <<Def("whitespace", ws[1], FALSE)>> ELSE <<>>

\* The tokenize methods, the scanner being compiled: jsparser.js returns what
\* the tokenizer function returns, stringlexer.js wraps it in a parse state.
tokenize(v, sc, kw, h, str) ==
    LET r == RunTokenizer(v, sc, kw, h, str, 0, 0, <<>>)
    IN  IF v = "stringlexer" /\ r.kind = "array"
        THEN LexResult("state", [tokens |-> r.value, cursor |-> 0, ast |-> <<>>])
        ELSE r

\* The tokens a call produced, none when it threw.
TokensOf(r) ==
    IF r.kind = "array" THEN r.value ELSE IF r.kind = "state" THEN r.value.tokens ELSE <<>>

\* A call on the Lexer: the method, its argument, whether it compiled the
\* scanner, the define, tokenize or new before it, whether a definition was
\* pending then, and the result.
Call(op, arg, compiled, prev, result) ==
    [op |-> op, arg |-> arg, compiled |-> compiled, prev |-> prev, pending |-> dirty,
     result |-> result]
NoResult == LexResult("none", <<>>)
NoCall == Call("none", <<>>, FALSE, "none", NoResult)

\* No Lexer takes part in a parse of given tokens.
NoLexer ==
    /\ lexer = "none"
    /\ definitions = <<>>
    /\ keepws = FALSE
    /\ handler = "default"
    /\ tokenizer = <<>>
    /\ dirty = FALSE
    /\ lexcall = NoCall

(***************************************************************************)
(* The machine                                                             *)
(***************************************************************************)
\* A pending combinator call: the parser function n, which operand of && or ||
\* is being evaluated (stage), the saved_state of bt and nodefn, the local
\* next of many (not kept by parsers.js, recorded for it all the same), and
\* the state at the call, for the history; iter, also for the history, is the
\* state in which many made its latest call of its parser.
Frame(n, stage, saved, next, entry) ==
    [n |-> n, stage |-> stage, saved |-> saved, next |-> next, entry |-> entry,
     iter |-> entry]

NoFrame == Frame(0, 0, [cursor |-> 0, astlen |-> 0], 0, init_state(<<>>))

Top == ctl[Len(ctl)]
Popped == SubSeq(ctl, 1, Len(ctl) - 1)
TopOp == IF ctl = <<>> THEN "none" ELSE gram[Top.n].op

Snapshot ==
    [state |-> state, ret |-> ret, from |-> from, phase |-> phase,
     frame |-> IF ctl = <<>> THEN NoFrame ELSE Top]

NoFrom == [n |-> 0, stage |-> 0]

Init ==
    /\ variant \in Variants
    /\ \E toks \in TokenSeqs(Names, MaxLen) \cup TokenSeqs(CalcNames, MaxCalcLen)
                      \cup {ExprTokens} :
          /\ state = init_state(toks)
          /\ \/ /\ \A i \in DOMAIN toks : toks[i].name \in Names
                /\ \/ gram \in SmallGrammars /\ regs = <<>>
                   \/ /\ gram \in ActionGrammars
                      /\ \E fs \in ActionSeqs(MaxActions) :
                            /\ fs # <<>>
                            /\ regs = [i \in DOMAIN fs |-> [n |-> NodeAt(gram), f |-> fs[i]]]
             \/ /\ \A i \in DOMAIN toks : toks[i].name \in CalcNames
                /\ gram = Calculator
                /\ regs = <<>>
             \/ /\ toks = ExprTokens
                /\ gram = ExprGrammar
                /\ regs = <<>>
    /\ phase = "setup"
    /\ cur = 1
    /\ ret = FALSE
    /\ ctl = <<>>
    /\ thrown = "none"
    /\ from = NoFrom
    /\ actlog = <<>>
    /\ cutlog = [made |-> {}, last |-> <<>>]
    /\ reglog = <<>>
    /\ before = Snapshot
    /\ NoLexer

\* The client's next call of action(nodeparser, act).
Register ==
    /\ phase = "setup"
    /\ regs # <<>>
    /\ gram' = [gram EXCEPT ![Head(regs).n].actions = action(@, Head(regs).f)]
    /\ regs' = Tail(regs)
    /\ reglog' = Append(reglog, Head(regs))
    /\ before' = Snapshot
    /\ UNCHANGED lexvars
    /\ UNCHANGED <<variant, state, phase, cur, ret, ctl, thrown, from, actlog, cutlog>>

\* The client calls its top parser function on the initial state.
Start ==
    /\ phase = "setup"
    /\ regs = <<>>
    /\ phase' = "call"
    /\ cur' = 1
    /\ before' = Snapshot
    /\ UNCHANGED lexvars
    /\ UNCHANGED <<variant, gram, regs, state, ret, ctl, thrown, from, actlog, cutlog, reglog>>

\* A call of a basic parser: one step, from call to return.
Basic(op, result) ==
    /\ phase = "call"
    /\ gram[cur].op = op
    /\ state' = result.s
    /\ ret' = result.ok
    /\ phase' = "ret"
    /\ from' = [n |-> cur, stage |-> 0]
    /\ cutlog' = IF op = "cut"
                 THEN LET marker == [label |-> gram[cur].num, cursor |-> state.cursor]
                      IN  [made |-> cutlog.made \cup {marker}, last |-> <<marker>>]
                 ELSE cutlog
    /\ before' = Snapshot
    /\ UNCHANGED lexvars
    /\ UNCHANGED <<variant, gram, regs, cur, ctl, thrown, actlog, reglog>>

CallKeep == Basic("keep", keep(state))
CallSkip == Basic("skip", skip(state))
CallIs == Basic("is", is(gram[cur].name, state))
CallMatch == Basic("match", match(gram[cur].name, state))
CallNot == Basic("not", not(gram[cur].name, state))
CallEat == Basic("eat", eat(gram[cur].name, state))
CallCut == Basic("cut", cut(gram[cur].num, state))
CallEND == Basic("END", END(state))

\* A call of a combinator's function, or of A && B or A || B: its frame is
\* pushed and its (first) parser is called.
Enter(op) ==
    /\ phase = "call"
    /\ gram[cur].op = op
    /\ ctl' = Append(ctl, Frame(cur, 1, save(state), state.cursor, state))
    /\ cur' = gram[cur].l
    /\ before' = Snapshot
    /\ UNCHANGED lexvars
    /\ UNCHANGED <<variant, gram, regs, state, phase, ret, thrown, from, actlog, cutlog, reglog>>

\* The top frame's call returns ok.
Return(ok) ==
    /\ ctl' = Popped
    /\ phase' = "ret"
    /\ ret' = ok
    /\ cur' = Top.n
    /\ from' = [n |-> Top.n, stage |-> Top.stage]

\* Fault seeded to test C12: the caller catches what is thrown and takes it for
\* a failure.
Throw_caught(what) ==
    /\ Return(FALSE)
    /\ thrown' = what

\* The top frame's call throws.
Throw(what) ==
    /\ phase' = "threw"
    /\ thrown' = what
    /\ UNCHANGED <<cur, ret, ctl, from>>

\* A && B: B is called when A returned a truthy value, else A's value is the result.
SeqEnter == Enter("seq")
SeqStep ==
    /\ phase = "ret"
    /\ TopOp = "seq"
    /\ IF Top.stage = 1 /\ ret
       THEN /\ ctl' = [ctl EXCEPT ![Len(ctl)].stage = 2]
            /\ cur' = gram[Top.n].r
            /\ phase' = "call"
            /\ UNCHANGED <<ret, from>>
       ELSE Return(ret)
    /\ before' = Snapshot
    /\ UNCHANGED lexvars
    /\ UNCHANGED <<variant, gram, regs, state, thrown, actlog, cutlog, reglog>>

\* A || B: B is called when A returned a falsy value, else A's value is the result.
AltEnter == Enter("alt")
AltStep ==
    /\ phase = "ret"
    /\ TopOp = "alt"
    /\ IF Top.stage = 1 /\ ~ret
       THEN /\ ctl' = [ctl EXCEPT ![Len(ctl)].stage = 2]
            /\ cur' = gram[Top.n].r
            /\ phase' = "call"
            /\ UNCHANGED <<ret, from>>
       ELSE Return(ret)
    /\ before' = Snapshot
    /\ UNCHANGED lexvars
    /\ UNCHANGED <<variant, gram, regs, state, thrown, actlog, cutlog, reglog>>

\* bt(parser)(): save, call parser; then restore unless it succeeded.
BtEnter == Enter("bt")
BtExit ==
    /\ phase = "ret"
    /\ TopOp = "bt"
    /\ LET o == backtracker(Top.saved, ret, state)
       IN  /\ state' = o.s
           /\ IF o.kind = "throw" THEN Throw("state") ELSE Return(o.ok) /\ UNCHANGED thrown
    /\ before' = Snapshot
    /\ UNCHANGED lexvars
    /\ UNCHANGED <<variant, gram, regs, actlog, cutlog, reglog>>

\* node(name, parser, count)(): save, call parser; then build the node, run
\* the actions and push the result, or restore.
NodeEnter == Enter("node")
NodeExit ==
    /\ phase = "ret"
    /\ TopOp = "node"
    /\ LET p == gram[Top.n]
           o == nodefn(p.name, p.num, p.actions, Top.saved, ret, state)
       IN  /\ state' = o.s
           /\ actlog' = o.log
           /\ IF o.kind = "throw" THEN Throw("state") ELSE Return(o.ok) /\ UNCHANGED thrown
    /\ before' = Snapshot
    /\ UNCHANGED lexvars
    /\ UNCHANGED <<variant, gram, regs, cutlog, reglog>>

\* many(parser): call parser until it returns a falsy value.
ManyEnter == Enter("many")
ManyStep ==
    /\ phase = "ret"
    /\ TopOp = "many"
    /\ LET todo == many(variant, Top.next, ret, state)
       IN  CASE todo = "again" ->
                   /\ ctl' = [ctl EXCEPT ![Len(ctl)].next = state.cursor,
                                         ![Len(ctl)].iter = state]
                   /\ cur' = gram[Top.n].l
                   /\ phase' = "call"
                   /\ UNCHANGED <<ret, from, thrown>>
             [] todo = "throw" -> Throw("error")
             [] todo = "return" -> Return(TRUE) /\ UNCHANGED thrown
    /\ before' = Snapshot
    /\ UNCHANGED lexvars
    /\ UNCHANGED <<variant, gram, regs, state, actlog, cutlog, reglog>>

\* The top parser function has returned to the client.
Finish ==
    /\ phase = "ret"
    /\ ctl = <<>>
    /\ phase' = "done"
    /\ before' = Snapshot
    /\ UNCHANGED lexvars
    /\ UNCHANGED <<variant, gram, regs, state, cur, ret, ctl, thrown, from, actlog, cutlog,
                   reglog>>

Next ==
    \/ Register \/ Start
    \/ CallKeep \/ CallSkip \/ CallIs \/ CallMatch \/ CallNot \/ CallEat \/ CallCut \/ CallEND
    \/ SeqEnter \/ SeqStep \/ AltEnter \/ AltStep
    \/ BtEnter \/ BtExit \/ NodeEnter \/ NodeExit \/ ManyEnter \/ ManyStep
    \/ Finish

Spec == Init /\ [][Next]_vars

(***************************************************************************)
(* The Lexers under a client's calls                                       *)
(***************************************************************************)
\* The definitions the client gives: a literal, a class of letters, classes of digits that match
\* one or more and none or more characters, a string that is not a valid
\* regular expression, whitespace switched off (tests/csv.js), and whitespace
\* patterns of its own.
GivenA == Given("bare", "a", <<"a">>)
GivenLetter == Given("regexp", "letter", <<"[", "a", "b", "]">>)
GivenNumber == Given("regexp", "number", <<"[", "1", "2", "7", "]", "+">>)
GivenDigits == Given("regexp", "digits", <<"[", "1", "2", "7", "]", "*">>)
GivenOpen == Given("string", "open", <<"(">>)
GivenNoWhitespace == Given("false", "whitespace", <<>>)
GivenBlanks == Given("regexp", "whitespace", <<" ", "*">>)
Givens(v) ==
    {GivenA, GivenLetter, GivenNumber, GivenDigits, GivenOpen, GivenBlanks}
        \cup (IF v = "jsparser" THEN {GivenNoWhitespace} ELSE {})

RECURSIVE GivenSeqs(_, _)
GivenSeqs(v, n) ==
    IF n = 0 THEN {<<>>}
    ELSE LET shorter == GivenSeqs(v, n - 1)
         IN  shorter \cup {Append(s, g) : s \in {t \in shorter : Len(t) = n - 1},
                                          g \in Givens(v)}

\* The ws arguments of stringlexer.js's constructor: left out, a RegExp, false.
WhitespaceArgs == {<<DefaultWhitespace>>, <<GivenBlanks.value>>, <<>>}

\* The inputs of tokenize: all short strings, the two of the examples,
\* "12 @ 7" and "a  b", and "@a" and "a@".
Inputs ==
    Strings(InputChars, MaxInput)
        \cup {<<"1", "2", " ", "@", " ", "7">>, <<"a", " ", " ", "b">>,
              <<"@", "a">>, <<"a", "@">>}

\* No parse takes part in the calls on a Lexer.
NoParse ==
    /\ variant = "jsparser"
    /\ gram = <<>>
    /\ regs = <<>>
    /\ state = init_state(<<>>)
    /\ phase = "setup"
    /\ cur = 1
    /\ ret = FALSE
    /\ ctl = <<>>
    /\ thrown = "none"
    /\ from = NoFrom
    /\ actlog = <<>>
    /\ cutlog = [made |-> {}, last |-> <<>>]
    /\ reglog = <<>>
    /\ before = Snapshot

\* The last define, tokenize or new before this call.
LastCallOp == IF lexcall.op = "set" THEN lexcall.prev ELSE lexcall.op

\* The client constructs a Lexer.
LexInit ==
    /\ NoParse
    /\ lexer \in {"jsparser", "stringlexer"}
    /\ IF lexer = "jsparser"
       THEN \E givens \in GivenSeqs(lexer, MaxDefs) : definitions = constructor_jsparser(givens)
       ELSE \E ws \in WhitespaceArgs : definitions = constructor_stringlexer(ws)
    /\ keepws = FALSE
    /\ handler = "default"
    /\ tokenizer = <<>>
    /\ dirty = TRUE
    /\ lexcall = Call("new", <<>>, FALSE, "none", NoResult)

\* define(given, bef) on the Lexer.
DefineOf(given, bef) ==
    LET r == IF lexer = "jsparser"
             THEN define_jsparser(given, bef, definitions, tokenizer)
             ELSE define_stringlexer(given, definitions, tokenizer)
    IN  /\ definitions' = r.definitions
        /\ tokenizer' = r.tokenizer
        /\ dirty' = (dirty \/ r.kind = "return")
        /\ lexcall' = Call("define", given, FALSE, LastCallOp,
                           IF r.kind = "throw" THEN LexResult("error", Cant_find)
                           ELSE NoResult)
        /\ UNCHANGED <<lexer, keepws, handler>>
        /\ UNCHANGED parsevars

\* The client calls define.
Define ==
    /\ Len(definitions) <= MaxDefs
    /\ \E given \in Givens(lexer),
          bef \in IF lexer = "jsparser" THEN {"", "number"} ELSE {""} :
          DefineOf(given, bef)

\* The client assigns keepws.
SetKeepws ==
    /\ keepws' = ~keepws
    /\ lexcall' = Call("set", <<>>, FALSE, LastCallOp, NoResult)
    /\ UNCHANGED <<lexer, definitions, handler, tokenizer, dirty>>
    /\ UNCHANGED parsevars

\* The client assigns unknownhandler.
SetHandler ==
    /\ \E h \in Handlers \ {handler} : handler' = h
    /\ lexcall' = Call("set", <<>>, FALSE, LastCallOp, NoResult)
    /\ UNCHANGED <<lexer, definitions, keepws, tokenizer, dirty>>
    /\ UNCHANGED parsevars

\* tokenize(str) on the Lexer: compile() if there is no tokenizer function,
\* then the tokenizer function.
TokenizeOf(str) ==
    /\ LET c == compile(lexer, definitions)
       IN  IF tokenizer = <<>> /\ ~c.ok
           THEN /\ lexcall' = Call("tokenize", str, FALSE, LastCallOp,
                                   LexResult("error", SyntaxError))
                /\ UNCHANGED <<tokenizer, dirty>>
           ELSE LET sc == IF tokenizer = <<>> THEN c.scanner ELSE tokenizer[1]
                IN  /\ tokenizer' = <<sc>>
                    /\ dirty' = (dirty /\ tokenizer # <<>>)
                    /\ lexcall' = Call("tokenize", str, tokenizer = <<>>, LastCallOp,
                                       tokenize(lexer, sc, keepws, handler, str))
    /\ UNCHANGED <<lexer, definitions, keepws, handler>>
    /\ UNCHANGED parsevars

\* The client calls tokenize.
Tokenize == \E str \in Inputs : TokenizeOf(str)

LexNext == Define \/ SetKeepws \/ SetHandler \/ Tokenize

LexSpec == LexInit /\ [][LexNext]_vars

(***************************************************************************)
(* A Lexer with one literal                                                *)
(***************************************************************************)
\* The literals given as bare strings: each character of LiteralChars by
\* itself, and two longer ones.
Literals ==
    {Given("bare", c, <<c>>) : c \in LiteralChars}
        \cup {Given("bare", "a.", <<"a", ".">>), Given("bare", "+@", <<"+", "@">>)}

\* The strings tokenized under a literal.
LiteralInputs == Strings(LiteralChars, MaxText)

\* new Lexer() with no argument.
LiteralInit ==
    /\ NoParse
    /\ lexer \in {"jsparser", "stringlexer"}
    /\ definitions = IF lexer = "jsparser" THEN constructor_jsparser(<<>>)
                     ELSE constructor_stringlexer(<<DefaultWhitespace>>)
    /\ keepws = FALSE
    /\ handler = "default"
    /\ tokenizer = <<>>
    /\ dirty = TRUE
    /\ lexcall = Call("new", <<>>, FALSE, "none", NoResult)

\* define('s') of jsparser.js, define('s') with the value left out of
\* stringlexer.js: the one literal of the Lexer.
DefineLiteral ==
    /\ Len(definitions) = 1
    /\ \E lit \in Literals : DefineOf(lit, "")

TokenizeLiteral == \E str \in LiteralInputs : TokenizeOf(str)

LiteralNext == DefineLiteral \/ TokenizeLiteral

LiteralSpec == LiteralInit /\ [][LiteralNext]_vars

(***************************************************************************)
(* The README's calculator grammar as a recognizer (EBNF, README.md):      *)
(*   expr := addend ( add_op addend )*     addend := factor ( mult_op factor )* *)
(*   factor := bracket | number            bracket := '(' expr ')'         *)
(* Each operator gives the index after the phrase starting at token index  *)
(* i, or -1 when no such phrase starts there.                              *)
(***************************************************************************)
NameAt(toks, i, names) == i >= 0 /\ i < Len(toks) /\ toks[i + 1].name \in names

RECURSIVE ExprEnd(_, _), ExprRest(_, _), AddendEnd(_, _), AddendRest(_, _), FactorEnd(_, _)
FactorEnd(toks, i) ==
    IF NameAt(toks, i, {"number"}) THEN i + 1
    ELSE IF NameAt(toks, i, {"("})
         THEN LET e == ExprEnd(toks, i + 1)
              IN  IF e # -1 /\ NameAt(toks, e, {")"}) THEN e + 1 ELSE -1
         ELSE -1
AddendRest(toks, i) ==
    IF NameAt(toks, i, {"*", "/"}) /\ FactorEnd(toks, i + 1) # -1
    THEN AddendRest(toks, FactorEnd(toks, i + 1))
    ELSE i
AddendEnd(toks, i) ==
    IF FactorEnd(toks, i) = -1 THEN -1 ELSE AddendRest(toks, FactorEnd(toks, i))
ExprRest(toks, i) ==
    IF NameAt(toks, i, {"+", "-"}) /\ AddendEnd(toks, i + 1) # -1
    THEN ExprRest(toks, AddendEnd(toks, i + 1))
    ELSE i
ExprEnd(toks, i) ==
    IF AddendEnd(toks, i) = -1 THEN -1 ELSE ExprRest(toks, AddendEnd(toks, i))

(***************************************************************************)
(* Properties                                                              *)
(***************************************************************************)
\* The last step was the call of a basic parser; cur is that parser.
LastBasic == before.phase = "call" /\ phase \in {"ret"}
LastOp == gram[cur].op

\* The last step was what the combinator op does once its parser has returned;
\* Exited is that combinator, Entry the state it was called on, Left the
\* state its parser left, Pushed the elements its parser added to the stack.
LastExit(op) == before.phase = "ret" /\ before.frame.n # 0 /\ gram[before.frame.n].op = op
Exited == gram[before.frame.n]
Entry == before.frame.entry
Left == before.state
Pushed == SubSeq(Left.ast, Len(Entry.ast) + 1, Len(Left.ast))

\* A cut marker at or past the cursor the combinator was called at is set.
Committed == Left.cut # <<>> /\ Left.cut[1].cursor >= Entry.cursor

Aborted == phase = "threw" /\ thrown = "state"
Failed == phase = "ret" /\ ~ret
Succeeded == phase = "ret" /\ ret
Rewound == state.cursor = Entry.cursor /\ Len(state.ast) = Len(Entry.ast)

\* bt(A && B) has just finished a call in which A succeeded and B failed.
ASucceededBFailed ==
    /\ LastExit("bt")
    /\ gram[Exited.l].op = "seq"
    /\ before.from = [n |-> Exited.l, stage |-> 2]
    /\ ~before.ret

\* C1 as stated: whenever bt(A && B) is called, A succeeds and B fails, the
\* call reports failure and the cursor and the stack length are what they were
\* immediately before the call.
C1_BtAlwaysRewinds == ASucceededBFailed => Failed /\ Rewound

\* C1 amended: the same, unless a cut marker whose cursor is at or past the
\* cursor at the call is set when B fails; then the call throws the parse
\* state as A and B left it.
C1_BtRewindsUnlessCommitted ==
    ASucceededBFailed =>
        IF Committed THEN Aborted /\ state = Left ELSE Failed /\ Rewound

\* C1 witness: bt(A && B) failed in B after A advanced and pushed, and the state
\* was rewound, a marker behind the checkpoint notwithstanding.
C1_Witness ==
    /\ ASucceededBFailed /\ Failed /\ Rewound
    /\ Left.cursor > state.cursor /\ Len(Left.ast) > Len(state.ast)
    /\ state.cut # <<>>

\* An action function of the node parser returns a falsy value for the node built.
Built == Len(Pushed) > Exited.num
Vetoed == Built /\ \E i \in DOMAIN Exited.actions : Exited.actions[i] = "veto"

\* The last step called restore: from bt, from a failed nodefn, or from a
\* nodefn one of whose actions returned a falsy value.
RestoreAttempt ==
    \/ LastExit("bt") /\ ~before.ret
    \/ LastExit("node") /\ (~before.ret \/ Vetoed)

\* C2 as stated: once cut(L) has succeeded at cursor K, every later restore
\* whose checkpoint cursor is <= K aborts the attempt, and the state thrown
\* carries the marker {L, K}.
C2_AbortCarriesThatCut ==
    RestoreAttempt =>
        \A m \in cutlog.made :
            Entry.cursor <= m.cursor => Aborted /\ state.cut = <<m>>

\* C2 amended: once cut(L) has succeeded at cursor K, every later restore whose
\* checkpoint cursor is <= K aborts the attempt, under any nesting; the state
\* thrown carries the marker of the latest cut, whose cursor is >= K.
C2_AbortCarriesLatestCut ==
    RestoreAttempt =>
        \A m \in cutlog.made :
            Entry.cursor <= m.cursor =>
                /\ Aborted
                /\ state.cut = cutlog.last
                /\ state.cut[1].cursor >= m.cursor

\* C2 witness: a restore three or more calls deep aborted after two cuts, the
\* earlier of them at or past the checkpoint and overwritten by the later.
C2_Witness ==
    /\ RestoreAttempt /\ Aborted
    /\ Len(ctl) >= 3
    /\ \E m \in cutlog.made : Entry.cursor <= m.cursor /\ state.cut # <<m>>

\* C3: with the README's calculator grammar with cut(1), the parse state is
\* thrown only when the tokens after the operator (from the cut on) are not a
\* valid addend.
C3_ThrowsOnlyOnBadAddend ==
    (gram = Calculator /\ phase = "threw") =>
        /\ thrown = "state"
        /\ state.cut # <<>>
        /\ AddendEnd(state.tokens, state.cut[1].cursor) = -1

\* C4: when the parser given to many succeeds without advancing the cursor,
\* many raises an error instead of calling it again, in both variants.
C4_ManyRejectsNoProgress ==
    (LastExit("many") /\ before.ret /\ Left.cursor = before.frame.next) =>
        phase = "threw" /\ thrown = "error"

\* C5: node(name, p, count) without actions, p having succeeded: when p pushed
\* more than count elements (count is 1 for cnode, 0 for node) they are replaced
\* by one node named name with exactly those elements as children, in order;
\* otherwise no node is made and the stack stays as p left it.
C5_NodeThreshold ==
    (LastExit("node") /\ before.ret /\ Exited.actions = <<>>) =>
        /\ Succeeded
        /\ state.cursor = Left.cursor
        /\ IF Len(Pushed) >= Exited.num + 1
           THEN /\ state.ast = Append(SubSeq(Left.ast, 1, Len(Entry.ast)),
                                      [name |-> Exited.name, children |-> Pushed])
                /\ Len(state.ast) = Len(Entry.ast) + 1
           ELSE state.ast = Left.ast

\* C5 witness: a cnode whose parser pushed two elements made a node of them.
C5_Witness ==
    /\ LastExit("node") /\ before.ret /\ Exited.actions = <<>>
    /\ Exited.num = 1
    /\ Len(Pushed) = 2
    /\ state.ast[Len(state.ast)].name = "X"

\* C6: when p succeeded, a node was built and a registered action returns a
\* falsy value, no later action runs, nothing is pushed, and restore is done:
\* the attempt aborts if a marker at or past the checkpoint is set, else the
\* call fails with cursor and stack length as before the call.
C6_VetoRestores ==
    (LastExit("node") /\ before.ret /\ Vetoed) =>
        LET k == CHOOSE i \in DOMAIN Exited.actions :
                    /\ Exited.actions[i] = "veto"
                    /\ \A j \in 1..(i - 1) : Exited.actions[j] # "veto"
        IN  /\ Len(actlog) = k
            /\ actlog[k].fn = "veto"
            /\ Len(state.ast) = Len(Entry.ast)
            /\ IF Committed THEN Aborted ELSE Failed /\ Rewound

\* C6 witness: the first of two actions vetoed a node, and the call failed
\* with the cursor moved back.
C6_Witness ==
    /\ LastExit("node") /\ before.ret /\ Vetoed
    /\ Len(Exited.actions) = 2 /\ Exited.actions[1] = "veto"
    /\ Failed /\ state.cursor < Left.cursor

\* C7: the actions registered on a node parser run in registration order, the
\* first on the node just built, each later one on what the one before it
\* returned; what is pushed is what the last one returned.
C7_ActionsInOrder ==
    (LastExit("node") /\ before.ret /\ Built) =>
        LET OnThis(r) == r.n = before.frame.n
            registered == SelectSeq(reglog, OnThis)
            fresh == [name |-> Exited.name, children |-> Pushed]
        IN  /\ Len(actlog) <= Len(registered)
            /\ \A i \in DOMAIN actlog :
                  /\ actlog[i].fn = registered[i].f
                  /\ actlog[i].arg = IF i = 1 THEN fresh ELSE actlog[i - 1].value
            /\ (\A i \in DOMAIN actlog : ~actlog[i].falsy) =>
                  /\ Len(actlog) = Len(registered)
                  /\ Succeeded
                  /\ state.ast[Len(state.ast)] =
                        IF actlog = <<>> THEN fresh ELSE actlog[Len(actlog)].value

\* C7 witness: two different actions ran on a node and the second one's result
\* was pushed.
C7_Witness ==
    /\ LastExit("node") /\ before.ret /\ Built /\ Succeeded
    /\ Len(actlog) = 2 /\ actlog[1].fn # actlog[2].fn
    /\ state.ast[Len(state.ast)] = actlog[2].value

\* C8: a basic parser that fails leaves the parse state as it was; a successful
\* match or not advances the cursor by one and appends one element; a
\* successful eat advances the cursor by one and leaves the stack alone.
C8_BasicParsers ==
    LastBasic =>
        /\ (LastOp \in {"keep", "skip", "is", "match", "not", "eat", "END"} /\ ~ret) =>
              state = Left
        /\ (LastOp \in {"match", "not"} /\ ret) =>
              /\ state.cursor = Left.cursor + 1
              /\ Len(state.ast) = Len(Left.ast) + 1
              /\ SubSeq(state.ast, 1, Len(Left.ast)) = Left.ast
              /\ state.cut = Left.cut /\ state.tokens = Left.tokens
        /\ (LastOp = "eat" /\ ret) =>
              /\ state.cursor = Left.cursor + 1
              /\ state.ast = Left.ast
              /\ state.cut = Left.cut /\ state.tokens = Left.tokens

\* C8 witness: eat succeeded on a state with a non-empty stack.
C8_Witness == LastBasic /\ LastOp = "eat" /\ ret /\ Left.ast # <<>>

\* C9: is(name) leaves the state alone and succeeds exactly when there is a
\* token at the cursor and its name is name; at or past the end it fails.
C9_IsPeeks ==
    (LastBasic /\ LastOp = "is") =>
        /\ state = Left
        /\ ret <=> (Left.cursor < Len(Left.tokens)
                        /\ Left.tokens[Left.cursor + 1].name = gram[cur].name)
        /\ Left.cursor >= Len(Left.tokens) => ~ret

\* C9 witness: is failed with the cursor at the end of a non-empty token sequence.
C9_Witness ==
    /\ LastBasic /\ LastOp = "is" /\ ~ret
    /\ Left.tokens # <<>> /\ Left.cursor = Len(Left.tokens)

\* C10: cut(label) succeeds, sets the one cut marker to {label, cursor},
\* whatever it was, and leaves cursor, stack and tokens alone.
C10_CutSetsMarker ==
    /\ Len(state.cut) <= 1
    /\ (LastBasic /\ LastOp = "cut") =>
          /\ ret
          /\ state.cut = <<[label |-> gram[cur].num, cursor |-> Left.cursor]>>
          /\ state.cursor = Left.cursor /\ state.ast = Left.ast
          /\ state.tokens = Left.tokens

\* C10 witness: a cut overwrote a different marker.
C10_Witness ==
    /\ LastBasic /\ LastOp = "cut" /\ ret
    /\ Left.cut # <<>> /\ Left.cut # state.cut

\* C11: in every state reachable from a freshly initialized parse state by the
\* library's operations, 0 <= cursor <= the number of tokens.
C11_CursorInRange == 0 <= state.cursor /\ state.cursor <= Len(state.tokens)

\* C11 witness: a parser that advances (keep, skip, match, not, eat) was called
\* with the cursor at the end of a non-empty token sequence and left it there.
C11_Witness ==
    /\ LastBasic /\ LastOp \in {"keep", "skip", "match", "not", "eat"}
    /\ Left.tokens # <<>> /\ Left.cursor = Len(Left.tokens)
    /\ state.cursor = Len(state.tokens)

\* C12: once a restore has aborted the attempt by throwing the parse state,
\* nothing runs any more: no enclosing bt, node, many or || tries another
\* branch or changes the state.  What is thrown is the live parse state of that
\* moment: the tokens, the cursor where the attempt stood (not rewound), the
\* stack as it was (less the elements a vetoed node took off) and the marker.
C12_AbortIsTerminal ==
    /\ [](thrown = "state" =>
            /\ phase = "threw"
            /\ RestoreAttempt
            /\ state.tokens = Left.tokens /\ state.cursor = Left.cursor
            /\ state.cut = Left.cut /\ state.cut # <<>>
            /\ state.ast = IF LastExit("node") /\ before.ret
                           THEN SubSeq(Left.ast, 1, Len(Entry.ast))
                           ELSE Left.ast)
    /\ [][thrown = "state" => UNCHANGED vars]_vars

\* C12 witness: a restore aborted inside an A || B whose B had not been tried
\* and inside a many, with the cursor past the checkpoint and the stack not empty.
C12_Witness ==
    /\ Aborted
    /\ \E i \in 1..(Len(ctl) - 1) : gram[ctl[i].n].op = "alt" /\ ctl[i].stage = 1
    /\ \E i \in 1..(Len(ctl) - 1) : gram[ctl[i].n].op = "many"
    /\ state.cursor > Entry.cursor /\ state.ast # <<>>

\* C13: when the README's grammar with cut(1) throws the state, the token at
\* index state.cut.at is the last token parsed before the cut, the add_op; for
\* the tokens of `1+` the marker is {label: 1, at: 1}.
C13_CutIndexIsLastToken ==
    (gram = Calculator /\ Aborted) =>
        LET at == state.cut[1].cursor
        IN  /\ at < Len(state.tokens)
            /\ state.tokens[at + 1].name \in {"+", "-"}
            /\ Len(state.tokens) = 2 => state.cut = <<[label |-> 1, cursor |-> 1]>>

\* The parser function n is backtracking by construction: a basic parser, a bt
\* or node parser, an alternation of such, or a many of such.
RECURSIVE IsBacktracking(_, _)
IsBacktracking(g, n) ==
    CASE g[n].op \in {"keep", "skip", "is", "match", "not", "eat", "cut", "END", "bt", "node"} ->
            TRUE
      [] g[n].op = "alt" -> IsBacktracking(g, g[n].l) /\ IsBacktracking(g, g[n].r)
      [] g[n].op = "many" -> IsBacktracking(g, g[n].l)
      [] OTHER -> FALSE

\* C14: many(p) with a backtracking p calls p again after each call of p that
\* succeeded (and advanced), and when p fails, on its first call too, many
\* succeeds with the state as the last successful call of p left it (the state
\* before many when there was none).
C14_ManyRepeats ==
    (LastExit("many") /\ IsBacktracking(gram, Exited.l)) =>
        IF before.ret
        THEN Left.cursor # before.frame.next =>
                phase = "call" /\ cur = Exited.l /\ state = Left
        ELSE Succeeded /\ state = before.frame.iter

\* C14 witness: many of a bt parser returned after a successful call of the
\* parser that advanced and pushed, and a failed one.
C14_Witness ==
    /\ LastExit("many") /\ ~before.ret /\ Succeeded
    /\ gram[Exited.l].op = "bt"
    /\ state.cursor > Entry.cursor /\ Len(state.ast) > Len(Entry.ast)
    /\ before.frame.iter # Entry

\* The last call was a tokenize that returned.
Tokenized == lexcall.op = "tokenize" /\ lexcall.result.kind \in {"array", "state"}
Input == lexcall.arg
Returned == lexcall.result.value

\* C15: what tokenize returns is a freshly initialized parse state: the tokens
\* scanned, cursor 0, an empty stack and no cut marker, for the Lexer of
\* jsparser.js and for that of stringlexer.js.
C15_TokenizeGivesParseState ==
    Tokenized =>
        /\ lexcall.result.kind = "state"
        /\ Returned.tokens =
              RunTokenizer(lexer, tokenizer[1], keepws, handler, Input, 0, 0, <<>>).value
        /\ Returned.cursor = 0
        /\ Returned.ast = <<>>
        /\ "cut" \notin DOMAIN Returned

\* The matches str.matchAll(re) yields from offset pos on: after an empty match
\* the search goes on one character further.
RECURSIVE Matches(_, _, _)
Matches(sc, str, pos) ==
    LET m == IF pos > Len(str) THEN NoMatch ELSE NextMatch(sc, str, pos)
        end == m.index + m.len
    IN  IF ~m.found THEN <<>>
        ELSE <<m>> \o Matches(sc, str, IF m.len = 0 THEN end + 1 ELSE end)

\* The stretches of str between consecutive matches, before the first and after
\* the last: stretch k lies before match k, the last one before the end of str.
Stretches(ms, str) ==
    LET all == [k \in 1..(Len(ms) + 1) |->
                   [lo |-> IF k = 1 THEN 0 ELSE ms[k - 1].index + ms[k - 1].len,
                    hi |-> IF k > Len(ms) THEN Len(str) ELSE ms[k].index,
                    k |-> k]]
    IN  SelectSeq(all, LAMBDA g : g.hi > g.lo)

\* The first match at which the tokenizer of jsparser.js stops for a token of
\* no length; past the matches when there is none.
StopAt(ms, sc) ==
    LET stops == {k \in DOMAIN ms :
                     /\ lexer = "jsparser" /\ ms[k].len = 0
                     /\ (keepws \/ NameOf(sc, ms[k]) # "whitespace")}
    IN  IF stops = {} THEN Len(ms) + 1 ELSE CHOOSE k \in stops : \A j \in stops : k <= j

\* C16: every stretch of the input between two consecutive matches, before the
\* first or after the last is given to the unknown handler as the token
\* {name: "unknown", text: the stretch, cursor: the end of the match before it
\* (0 for the first)}.  The default handler throws that token: "12 @ 7" throws
\* "@" at 3.  What an overriding handler returns stands in the output at that
\* place: after the tokens of what precedes the stretch, before the tokens of
\* what follows it.
C16_UnknownSpans ==
    (lexcall.op = "tokenize" /\ tokenizer # <<>>) =>
        LET sc == tokenizer[1]
            ms == Matches(sc, Input, 0)
            stop == StopAt(ms, sc)
            gaps == SelectSeq(Stretches(ms, Input), LAMBDA g : g.k <= stop)
            Unknown(g) == [name |-> "unknown", text |-> SubSeq(Input, g.lo + 1, g.hi),
                           cursor |-> g.lo]
            out == TokensOf(lexcall.result)
            made == SelectSeq(out, LAMBDA t : t.name = "unquoted")
        IN  /\ handler = "default" =>
                  /\ gaps # <<>> => lexcall.result = LexResult("unknown", Unknown(gaps[1]))
                  /\ lexcall.result.kind = "unknown" => gaps # <<>>
            /\ (handler = "unquoted" /\ Tokenized) =>
                  /\ made = [i \in DOMAIN gaps |-> [Unknown(gaps[i]) EXCEPT !.name = "unquoted"]]
                  /\ \A p \in DOMAIN out : out[p].name = "unquoted" =>
                        /\ \A q \in 1..(p - 1) :
                              out[q].cursor + Len(out[q].text) <= out[p].cursor
                        /\ \A q \in (p + 1)..Len(out) :
                              out[q].cursor >= out[p].cursor + Len(out[p].text)
            /\ (Input = <<"1", "2", " ", "@", " ", "7">> /\ handler = "default"
                   /\ definitions = constructor_jsparser(<<GivenNumber>>)) =>
                  lexcall.result =
                      LexResult("unknown", [name |-> "unknown", text |-> <<"@">>, cursor |-> 3])

\* C16 witness: "12 @ 7" was tokenized with an overriding handler, and what it
\* returned for "@" (offset 3) stands between the two numbers.
C16_Witness ==
    /\ Tokenized /\ handler = "unquoted" /\ ~keepws
    /\ Input = <<"1", "2", " ", "@", " ", "7">>
    /\ LET out == TokensOf(lexcall.result)
       IN  /\ Len(out) = 3
           /\ out[1].name = "number" /\ out[3].name = "number"
           /\ out[2] = [name |-> "unquoted", text |-> <<"@">>, cursor |-> 3]

\* The text and the offset of each token or match of a sequence.
TokenSpans(toks) == [i \in DOMAIN toks |-> [text |-> toks[i].text, cursor |-> toks[i].cursor]]
MatchSpans(ms, str) ==
    [i \in DOMAIN ms |->
        [text |-> SubSeq(str, ms[i].index + 1, ms[i].index + ms[i].len),
         cursor |-> ms[i].index]]

\* C17: the matches of the definition named whitespace are not in the token
\* sequence produced unless keepws is set, and then they are, in input order;
\* no unknown stretch covers any part of a whitespace match; the cursor of
\* every token produced is the offset at which its text starts in the input;
\* "a  b" gives a at 0 and b at 3.
C17_WhitespaceDropped ==
    (lexcall.op = "tokenize" /\ tokenizer # <<>>) =>
        LET sc == tokenizer[1]
            ms == Matches(sc, Input, 0)
            IsWhitespace(m) == m.group # 0 /\ sc.tokennames[m.group] = "whitespace"
            out == TokensOf(lexcall.result)
            matched == SelectSeq(out, LAMBDA t : t.name # "unquoted")
            unknowns == {out[p] : p \in {q \in DOMAIN out : out[q].name = "unquoted"}}
                            \cup (IF lexcall.result.kind = "unknown" THEN {Returned} ELSE {})
        IN  /\ (Tokenized /\ ~keepws) =>
                  TokenSpans(matched) =
                      MatchSpans(SelectSeq(ms, LAMBDA m : ~IsWhitespace(m)), Input)
            /\ (Tokenized /\ keepws) =>
                  /\ TokenSpans(matched) = MatchSpans(ms, Input)
                  /\ \A k \in DOMAIN ms :
                        IsWhitespace(ms[k]) => matched[k].name = "whitespace"
            /\ \A u \in unknowns : \A k \in DOMAIN ms :
                  IsWhitespace(ms[k]) =>
                      \/ ms[k].index + ms[k].len <= u.cursor
                      \/ ms[k].index >= u.cursor + Len(u.text)
            /\ \A p \in DOMAIN out :
                  out[p].text = SubSeq(Input, out[p].cursor + 1,
                                       out[p].cursor + Len(out[p].text))
            /\ (Tokenized /\ ~keepws /\ Input = <<"a", " ", " ", "b">>
                   /\ definitions = constructor_jsparser(<<GivenLetter>>)) =>
                  out = <<[name |-> "letter", text |-> <<"a">>, cursor |-> 0],
                          [name |-> "letter", text |-> <<"b">>, cursor |-> 3]>>

\* C18: a match of no length of a definition other than whitespace makes
\* tokenize throw a configuration error, and no token sequence produced holds
\* a token of no length, in the Lexer of jsparser.js and in that of
\* stringlexer.js.
C18_ZeroLengthAborts ==
    (lexcall.op = "tokenize" /\ tokenizer # <<>>) =>
        LET sc == tokenizer[1]
            ms == Matches(sc, Input, 0)
            out == TokensOf(lexcall.result)
            empty == {k \in DOMAIN ms :
                         /\ ms[k].len = 0 /\ ms[k].group # 0
                         /\ sc.tokennames[ms[k].group] # "whitespace"}
        IN  /\ \A p \in DOMAIN out : Len(out[p].text) > 0
            /\ (empty # {} /\ handler = "unquoted") =>
                  lexcall.result = LexResult("error", Zero_length)

\* C19: over the define and tokenize calls on one Lexer, a tokenize compiles
\* the scanner exactly when it is the first tokenize since the construction or
\* since a define, never when it follows a tokenize with no define in between;
\* and every tokenize scans with the scanner compiled from the definitions as
\* they are at that call.
C19_LazyCompile ==
    lexcall.op = "tokenize" =>
        LET c == compile(lexer, definitions)
        IN  /\ lexcall.compiled => lexcall.pending
            /\ lexcall.prev = "tokenize" => ~lexcall.compiled
            /\ (lexcall.pending /\ c.ok) => lexcall.compiled
            /\ IF c.ok
               THEN /\ tokenizer = <<c.scanner>>
                    /\ lexcall.result = tokenize(lexer, c.scanner, keepws, handler, Input)
               ELSE /\ tokenizer = <<>>
                    /\ lexcall.result = LexResult("error", SyntaxError)

\* C19 witness: a tokenize that followed a tokenize did not compile and gave a
\* token of the definition made last.
C19_Witness ==
    /\ Tokenized /\ lexcall.prev = "tokenize" /\ ~lexcall.compiled
    /\ TokensOf(lexcall.result) # <<>> /\ Len(definitions) >= 2
    /\ TokensOf(lexcall.result)[1].name = definitions[Len(definitions)].name
    /\ definitions[Len(definitions)].name # "whitespace"

\* The source of a stored definition is not a regular expression.
InvalidSource(d) == ~d.off /\ d.src # <<>> /\ ~ParseSource(d.src, 1, 0, <<>>).ok
HoldsInvalid == \E i \in DOMAIN definitions : InvalidSource(definitions[i])

C21_LiteralMatchesItself ==
    Tokenized =>
        \A i \in DOMAIN TokensOf(lexcall.result) : \A lit \in Literals :
            (lit.name = TokensOf(lexcall.result)[i].name
                 /\ findtoken(definitions, lit.name) # 0)
                => TokensOf(lexcall.result)[i].text = lit.value

\* C22: on the tokens number "12", plus "+", number "7" the grammar
\*   expr = node("expr", match(number) && many(bt((match(plus) || match(minus)) && match(number))))
\* succeeds with the cursor at 3 and one element on the stack, the node expr
\* whose children are the three tokens in order.
C22_ExprExample ==
    (gram = ExprGrammar /\ state.tokens = ExprTokens /\ phase \in {"done", "threw"}) =>
        /\ phase = "done" /\ ret
        /\ state.cursor = 3
        /\ state.ast = <<[name |-> "expr", children |-> ExprTokens]>>

C22_Witness == gram = ExprGrammar /\ state.tokens = ExprTokens /\ phase = "done" /\ ret

\* C23: parsers.js and create_parser of jsparser.js give the same outcome, the
\* same final cursor, stack and cut marker on the same tokens and grammar.
\* The two differ in many alone, and a run is fixed by its tokens and grammar,
\* so they agree on every run if and only if, wherever the parser of a many has
\* returned, many of parsers.js and many of jsparser.js do the same next: call
\* the parser again, throw, or return.
C23_VariantsAgree ==
    (phase = "ret" /\ TopOp = "many") =>
        many("parsers", Top.next, ret, state) = many("jsparser", Top.next, ret, state)

\* The checkpoints in scope: the frames of the bt and node calls in progress.
Checkpoints == {i \in DOMAIN ctl : gram[ctl[i].n].op \in {"bt", "node"}}

\* C24: the stack is at least as long as every checkpoint in scope recorded;
\* a step leaves it alone, appends one element, cuts it back to the length the
\* checkpoint of the bt or node that ends recorded (restore), or puts one node
\* in place of what was pushed since the checkpoint of the node that ends.
C24_StackAboveCheckpoints ==
    /\ \A i \in Checkpoints : Len(state.ast) >= ctl[i].saved.astlen
    /\ LET old == before.state.ast
           new == state.ast
           len == before.frame.saved.astlen
       IN  \/ new = old
           \/ Len(new) = Len(old) + 1 /\ SubSeq(new, 1, Len(old)) = old
           \/ /\ LastExit("bt") \/ LastExit("node")
              /\ len <= Len(old)
              /\ new = SubSeq(old, 1, len)
           \/ /\ LastExit("node")
              /\ len < Len(old)
              /\ Len(new) = len + 1
              /\ SubSeq(new, 1, len) = SubSeq(old, 1, len)

\* C24 witness: a bt inside a node that is still in progress has cut the stack
\* back to the length its own checkpoint recorded.
C24_Witness ==
    /\ LastExit("bt") /\ Failed
    /\ Len(state.ast) < Len(Left.ast)
    /\ Len(state.ast) = before.frame.saved.astlen
    /\ \E i \in Checkpoints : ctl[i].saved.astlen > 0

\* C25: the cut marker (label and cursor) changes in a call of cut and in no
\* other step: keep, skip, is, match, not, eat, END, many, the building of a
\* node and a restore that does not throw leave it as it is.
C25_MarkerChangesOnlyInCut ==
    state.cut # before.state.cut => LastBasic /\ LastOp = "cut" /\ ret

\* C25 witness: a bt has failed and rewound the state over its checkpoint,
\* which lies past the marker; the marker was set inside a bt or node call that
\* is still in progress, and is still there.
C25_Witness ==
    /\ LastExit("bt") /\ Failed
    /\ state.cut # <<>> /\ state.cut = Left.cut
    /\ state.cut[1].cursor < before.frame.saved.cursor
    /\ \E i \in Checkpoints : ctl[i].entry.cut # state.cut

\* C26: many(p) terminates.  Every invocation of p that succeeds either makes
\* many raise the non-progress error or leaves the cursor further on than it
\* was when the invocation began, and never past the end of the tokens, so
\* that at most length(tokens) - cursor_at_entry invocations succeed; and when
\* many returns it returns true with the cursor at or past the cursor at entry.
C26_ManyTerminates ==
    /\ (phase = "ret" /\ TopOp = "many" /\ ret) =>
           \/ many(variant, Top.next, ret, state) = "throw"
           \/ Top.next < state.cursor /\ state.cursor <= Len(state.tokens)
    /\ (LastExit("many") /\ phase = "ret") => ret /\ state.cursor >= Entry.cursor

\* The places of the definitions named whitespace.
WhitespaceEntries == {i \in DOMAIN definitions : definitions[i].name = "whitespace"}

\* C27: the Lexer of jsparser.js holds exactly one whitespace definition once
\* constructed (the client's, or the default when the client gave none), and
\* define of a definition named whitespace puts it in the place of the one
\* there is: the list still holds exactly one whitespace entry, the new one.
C27_WhitespaceReplacedInPlace ==
    lexer = "jsparser" =>
        /\ lexcall.op = "new" => Cardinality(WhitespaceEntries) = 1
        /\ (lexcall.op = "define" /\ lexcall.arg.name = "whitespace"
               /\ lexcall.result.kind # "error") =>
               /\ Cardinality(WhitespaceEntries) = 1
               /\ definitions[findtoken(definitions, "whitespace")] = makedef(lexcall.arg)

\* C28: in every state that is not a commit abort and has a cut marker, the
\* cursor is at or past the marker's cursor; and once there is a marker there
\* is one at every later step, its cursor never less than it was.
C28_CursorAtOrPastMarker ==
    /\ (state.cut # <<>> /\ ~Aborted) => state.cursor >= state.cut[1].cursor
    /\ before.state.cut # <<>> =>
           state.cut # <<>> /\ state.cut[1].cursor >= before.state.cut[1].cursor

\* C28 witness: with a marker set, a restore has moved the cursor back.
C28_Witness ==
    /\ LastExit("bt") \/ LastExit("node")
    /\ Failed
    /\ state.cut # <<>>
    /\ state.cursor < Left.cursor

\* C29: while a bt or node call is in progress the stack begins with the
\* elements it held when the call began, unchanged and in order; when the call
\* ends without throwing they are still there, and after a restore they are
\* the whole stack.
C29_StackBelowCheckpointKept ==
    /\ \A i \in Checkpoints :
           /\ Len(state.ast) >= Len(ctl[i].entry.ast)
           /\ SubSeq(state.ast, 1, Len(ctl[i].entry.ast)) = ctl[i].entry.ast
    /\ ((LastExit("bt") \/ LastExit("node")) /\ phase = "ret") =>
           /\ Len(state.ast) >= Len(Entry.ast)
           /\ SubSeq(state.ast, 1, Len(Entry.ast)) = Entry.ast
           /\ ~ret => state.ast = Entry.ast

\* C29 witness: a bt called on a stack that was not empty has failed after its
\* parser pushed, and a node call is still in progress around it.
C29_Witness ==
    /\ LastExit("bt") /\ Failed
    /\ Entry.ast # <<>>
    /\ Len(Left.ast) > Len(Entry.ast)
    /\ state.ast = Entry.ast
    /\ \E i \in Checkpoints : gram[ctl[i].n].op = "node"

\* C30: the actions of a node parser are called only when a node is built.
\* When the parser succeeded and pushed no more than the threshold (nothing
\* for node, at most one element for cnode) no action is called and the call
\* succeeds with the state as the parser left it; when the parser failed no
\* action is called either.
C30_ActionsOnlyOnNode ==
    LastExit("node") =>
        /\ (before.ret /\ ~Built) => actlog = <<>> /\ Succeeded /\ state = Left
        /\ actlog # <<>> => before.ret /\ Built

\* C30 witness: a node parser with an action that vetoes has succeeded without
\* building a node.
C30_Witness ==
    /\ LastExit("node") /\ before.ret /\ ~Built
    /\ \E i \in DOMAIN Exited.actions : Exited.actions[i] = "veto"
    /\ Succeeded

====
